---- MODULE Spec2Model ----
(***************************************************************************)
(* A model of github.com/JiaYongfei/respect: the recursive "respect"       *)
(* comparison (respect.go) and its gomega matcher.                         *)
(*                                                                         *)
(* Go values are modelled as records carrying their type id `t` and a      *)
(* payload that depends on the kind of the type.  A reflect.Type is        *)
(* modelled by its id (a string, unique per type, as *rtype pointers are). *)
(***************************************************************************)
EXTENDS Integers, Sequences, FiniteSets, TLC

\* respectObj, respectOptions, matcherDiff: the fields expected, options and diff
\*   of the matcher;  obj: the actual value of the last Match;  cmp: the
\*   comparison context of the last Respect call, at its return;  success: the
\*   result of the last Match;  pc: "ready" before Match, then "returned", or
\*   "panicked" when the call panicked
VARIABLES obj, respectObj, respectOptions, pc, cmp, matcherDiff, success

vars == <<obj, respectObj, respectOptions, pc, cmp, matcherDiff, success>>

(***************************************************************************)
(* Program constants                                                       *)
(***************************************************************************)
MaxDiff == 10

FloatPrecision == 10

OrderMatters == 1

LengthMatters == 2

ZeroValueMatters == 4

(***************************************************************************)
(* Bounds of the model                                                     *)
(***************************************************************************)
\* the longest slice of strings
MaxLen == 2

\* the longest slice of structs
MaxItems == 2

\* the longest slice of repeated items
MaxWide == 11

(***************************************************************************)
(* Types: the types of the test suite and the built-in ones they use, plus *)
(* time.Time (a struct with an Equal method) and Measure, a struct whose   *)
(* fields are of the scalar kinds the test suite leaves out.  The two      *)
(* types named Error of the packages pkg/v1 and pkg/v2, both imported as   *)
(* pkg, are the ones the type check of cmp.respect is written for.  Wide   *)
(* is a struct of MaxWide fields of type int32, enough of them to reach    *)
(* MaxDiff.  "test/Person" is the type Person of test/test_test.go, whose   *)
(* field description is unexported.                                        *)
(***************************************************************************)
Field(n, p, t) == [name |-> n, pkgPath |-> p, type |-> t]

TestPkg == "github.com/JiaYongfei/respect/test_test"

Kind(t) ==
  CASE t \in {"string", "Color"} -> "string"
    [] t = "int32" -> "int"
    [] t = "uint8" -> "uint"
    [] t = "bool" -> "bool"
    [] t = "float64" -> "float"
    [] t \in {"*string", "*Leg", "*Head", "*Person"} -> "ptr"
    [] t \in {"[]string", "[]Color", "[]*string", "[]*Leg", "[]Leg", "[]int32"} -> "slice"
    [] t = "[]test/Person" -> "slice"
    [] t = "[2]string" -> "array"
    [] t = "map[string]string" -> "map"
    [] t \in {"Leg", "Head", "Body", "Person", "Time", "Measure"} -> "struct"
    [] t \in {"pkg/v1.Error", "pkg/v2.Error", "Wide", "test/Person"} -> "struct"
    [] OTHER -> "invalid"

\* reflect.Type.Name(): empty for unnamed (composite) types
TypeName(t) ==
  IF Kind(t) \in {"ptr", "slice", "array", "map", "invalid"} THEN ""
  ELSE IF t \in {"pkg/v1.Error", "pkg/v2.Error"} THEN "Error"
  ELSE IF t = "test/Person" THEN "Person"
  ELSE t

\* reflect.Type.PkgPath(): empty for predeclared and unnamed types
PkgPath(t) ==
  CASE t \in {"Color", "Leg", "Head", "Body", "Person", "Measure", "Wide", "test/Person"} -> TestPkg
    [] t = "Time" -> "time"
    [] t = "pkg/v1.Error" -> "pkg/v1"
    [] t = "pkg/v2.Error" -> "pkg/v2"
    [] OTHER -> ""

\* reflect.Type.Elem() of pointer, slice and array types
ElemType(t) ==
  CASE t = "*string" -> "string"
    [] t = "*Leg" -> "Leg"
    [] t = "*Head" -> "Head"
    [] t = "*Person" -> "Person"
    [] t = "[]string" -> "string"
    [] t = "[]Color" -> "Color"
    [] t = "[]*string" -> "*string"
    [] t = "[]*Leg" -> "*Leg"
    [] t = "[]Leg" -> "Leg"
    [] t = "[]int32" -> "int32"
    [] t = "[]test/Person" -> "test/Person"
    [] t = "[2]string" -> "string"
    [] t = "map[string]string" -> "string"

\* the name of the i-th field of Wide
WideField(i) == IF i < 10 THEN "F0" \o ToString(i) ELSE "F" \o ToString(i)

Fields(t) ==
  CASE t = "Leg" -> <<Field("Name", "", "*string"), Field("LongShort", "", "string")>>
    [] t = "Head" -> <<Field("Mouth", "", "*string"), Field("Eyes", "", "[]*string")>>
    [] t = "Body" -> <<Field("Head", "", "*Head"), Field("Arms", "", "[]string"),
                       Field("Legs", "", "[]*Leg")>>
    [] t = "Person" -> <<Field("Name", "", "string"), Field("Age", "", "int32"),
                         Field("Description", "", "*string"), Field("Color", "", "Color"),
                         Field("Body", "", "Body"), Field("Memory", "", "map[string]string")>>
    [] t = "Time" -> <<Field("sec", "time", "int32"), Field("loc", "time", "string")>>
    [] t = "Measure" -> <<Field("Ratio", "", "float64"), Field("Count", "", "uint8"),
                          Field("Ok", "", "bool")>>
    [] t \in {"pkg/v1.Error", "pkg/v2.Error"} -> <<Field("Msg", "", "string")>>
    [] t = "Wide" -> [i \in 1..MaxWide |-> Field(WideField(i), "", "int32")]
    [] t = "test/Person" -> <<Field("Name", "", "string"), Field("Age", "", "int32"),
                              Field("description", TestPkg, "string"),
                              Field("Color", "", "Color"), Field("Body", "", "Body"),
                              Field("Memory", "", "map[string]string")>>
    [] OTHER -> <<>>

\* reflect.Type.String(), as %v prints a type
RECURSIVE TypeString(_)
TypeString(t) ==
  CASE Kind(t) = "ptr" -> "*" \o TypeString(ElemType(t))
    [] Kind(t) = "slice" -> "[]" \o TypeString(ElemType(t))
    [] Kind(t) = "array" -> "[2]" \o TypeString(ElemType(t))
    [] Kind(t) = "map" -> "map[string]" \o TypeString(ElemType(t))
    [] t \in {"Color", "Leg", "Head", "Body", "Person", "Measure", "Wide"} -> "test_test." \o t
    [] t = "Time" -> "time.Time"
    [] t \in {"pkg/v1.Error", "pkg/v2.Error"} -> "pkg.Error"
    [] t = "test/Person" -> "test_test.Person"
    [] OTHER -> t

(***************************************************************************)
(* Values (reflect.Value)                                                  *)
(***************************************************************************)
\* the zero reflect.Value: ValueOf(nil), Elem() of a nil pointer, MapIndex of a missing key
Invalid == [t |-> "<invalid>"]

Str(t, s) == [t |-> t, s |-> s]

Int32(n) == [t |-> "int32", n |-> n]

Uint8(n) == [t |-> "uint8", u |-> n]

Bool(b) == [t |-> "bool", b |-> b]

\* a float64, held as an integer count of 10^-(FloatPrecision+1)
Float64(f) == [t |-> "float64", f |-> f]

Ptr(t, p, a) == [t |-> t, nil |-> FALSE, p |-> p, addr |-> a]

NilPtr(t) == [t |-> t, nil |-> TRUE, p |-> Invalid, addr |-> 0]

Slice(t, e, a) == [t |-> t, nil |-> FALSE, e |-> e, addr |-> a]

NilSlice(t) == [t |-> t, nil |-> TRUE, e |-> <<>>, addr |-> 0]

Array(t, e) == [t |-> t, e |-> e]

\* a map holds its entries as a sequence of <<key, value>> with distinct keys;
\* a key is kept as its string, a value as a Value
Map(t, kv, a) == [t |-> t, nil |-> FALSE, kv |-> kv, addr |-> a]

NilMap(t) == [t |-> t, nil |-> TRUE, kv |-> <<>>, addr |-> 0]

Struct(t, fl) == [t |-> t, fl |-> fl]

IsValid(v) == v.t # "<invalid>"

VKind(v) == Kind(v.t)

IsNil(v) == v.nil

VLen(v) == IF VKind(v) = "map" THEN Len(v.kv) ELSE Len(v.e)

\* Value.Index(i), i counted from 0 as in the code
Index(v, i) == v.e[i + 1]

\* Value.Elem() of a pointer
Elem(v) == IF v.nil THEN Invalid ELSE v.p

\* Value.Pointer() of a slice or map
Pointer(v) == v.addr

NumField(v) == Len(Fields(v.t))

\* Value.Field(i), i counted from 0 as in the code
FieldAt(v, i) == v.fl[i + 1]

FieldByName(v, name) ==
  IF \E i \in 1..Len(Fields(v.t)) : Fields(v.t)[i].name = name
    THEN v.fl[CHOOSE i \in 1..Len(Fields(v.t)) : Fields(v.t)[i].name = name]
    ELSE Invalid

MapIndex(v, key) ==
  IF \E i \in 1..Len(v.kv) : v.kv[i][1] = key
    THEN v.kv[CHOOSE i \in 1..Len(v.kv) : v.kv[i][1] = key][2]
    ELSE Invalid

RECURSIVE IsZero(_)
IsZero(v) ==
  CASE VKind(v) = "string" -> v.s = ""
    [] VKind(v) = "int" -> v.n = 0
    [] VKind(v) = "uint" -> v.u = 0
    [] VKind(v) = "bool" -> v.b = FALSE
    [] VKind(v) = "float" -> v.f = 0
    [] VKind(v) \in {"ptr", "slice", "map"} -> v.nil
    [] VKind(v) = "array" -> \A i \in 1..Len(v.e) : IsZero(v.e[i])
    [] VKind(v) = "struct" -> \A i \in 1..Len(v.fl) : IsZero(v.fl[i])

\* Value.String(): the string itself for a string, "<T Value>" for any other kind
StringOf(v) ==
  IF ~IsValid(v) THEN "<invalid Value>"
  ELSE IF VKind(v) = "string" THEN v.s
  ELSE "<" \o TypeString(v.t) \o " Value>"

RECURSIVE Join(_, _)
Join(ss, sep) ==
  IF Len(ss) = 0 THEN ""
  ELSE IF Len(ss) = 1 THEN ss[1]
  ELSE ss[1] \o sep \o Join(Tail(ss), sep)

\* strconv of an integer (ToString prints a negative number with its sign)
Itoa(n) == ToString(n)

(***************************************************************************)
(* fmt's %v                                                                *)
(***************************************************************************)
\* the i-th key of a map built to be wide
WideKey(i) == IF i < 10 THEN "k0" \o Itoa(i) ELSE "k" \o Itoa(i)

\* the keys maps are built from, in the order fmt sorts them
MapKeyUniverse == <<"1+1", "2*2">> \o [i \in 1..(MaxWide + 1) |-> WideKey(i)]

RECURSIVE FormatValue(_, _)
RECURSIVE FormatSeq(_, _)
FormatSeq(vs, depth) ==
  IF Len(vs) = 0 THEN ""
  ELSE IF Len(vs) = 1 THEN FormatValue(vs[1], depth)
  ELSE FormatValue(vs[1], depth) \o " " \o FormatSeq(Tail(vs), depth)

RECURSIVE FormatMap(_, _, _)
FormatMap(v, i, depth) ==
  IF i > Len(MapKeyUniverse) THEN ""
  ELSE LET key == MapKeyUniverse[i]
           rest == FormatMap(v, i + 1, depth)
       IN IF ~IsValid(MapIndex(v, key)) THEN rest
          ELSE key \o ":" \o FormatValue(MapIndex(v, key), depth)
                   \o (IF rest = "" THEN "" ELSE " " \o rest)

FormatValue(v, depth) ==
  CASE ~IsValid(v) -> "<invalid reflect.Value>"
    [] VKind(v) = "string" -> v.s
    [] VKind(v) = "int" -> Itoa(v.n)
    [] VKind(v) = "uint" -> Itoa(v.u)
    [] VKind(v) = "bool" -> IF v.b THEN "true" ELSE "false"
    [] VKind(v) = "float" -> Itoa(v.f) \o "e-11"
    [] VKind(v) = "ptr" ->
         IF v.nil THEN "<nil>"
         ELSE IF depth = 0 /\ VKind(v.p) \in {"array", "slice", "struct", "map"}
           THEN "&" \o FormatValue(v.p, depth + 1)
           ELSE "0xc00000" \o Itoa(v.addr)
    [] VKind(v) \in {"slice", "array"} -> "[" \o FormatSeq(v.e, depth + 1) \o "]"
    [] VKind(v) = "map" -> "map[" \o FormatMap(v, 1, depth + 1) \o "]"
    [] VKind(v) = "struct" -> "{" \o FormatSeq(v.fl, depth + 1) \o "}"

(***************************************************************************)
(* The comparison context (type cmp) and its bookkeeping                   *)
(***************************************************************************)
\* options & flag != 0, for a flag that is a power of two
HasOption(options, flag) == (options \div flag) % 2 = 1

\* a | b on the three option bits
BitOr(a, b) ==
  (IF HasOption(a, 1) \/ HasOption(b, 1) THEN 1 ELSE 0)
  + (IF HasOption(a, 2) \/ HasOption(b, 2) THEN 2 ELSE 0)
  + (IF HasOption(a, 4) \/ HasOption(b, 4) THEN 4 ELSE 0)

RECURSIVE OrOptions(_)
OrOptions(opts) ==
  IF Len(opts) = 0 THEN 0 ELSE BitOr(opts[Len(opts)], OrOptions(SubSeq(opts, 1, Len(opts) - 1)))

\* c := &cmp{...}; `panicked` records that a reflect call panicked and the
\* stack is unwinding; `keys` is the order in which this run enumerates map keys
NewCmp(options, order) ==
  [diff |-> <<>>, buff |-> <<>>, options |-> options, panicked |-> FALSE, keys |-> order]

push(c, name) == [c EXCEPT !.buff = Append(@, name)]

pop(c) == IF Len(c.buff) > 0 THEN [c EXCEPT !.buff = SubSeq(@, 1, Len(@) - 1)] ELSE c

\* an entry of c.diff: `text` is the string the code appends; `path` and `msg`
\* keep the two parts it was rendered from
save(c, msg) ==
  IF Len(c.buff) > 0
    THEN [c EXCEPT !.diff = Append(@, [path |-> c.buff, msg |-> msg,
                                       text |-> Join(c.buff, ".") \o ": " \o msg])]
    ELSE [c EXCEPT !.diff = Append(@, [path |-> <<>>, msg |-> msg, text |-> msg])]

\* aval and bval are the operands as %v prints them
saveDiff_(c, aval, bval, operator) == save(c, aval \o " " \o operator \o " " \o bval)

saveDiff(c, aval, bval) == saveDiff_(c, aval, bval, "!=")

Panic(c) == [c EXCEPT !.panicked = TRUE]

valueType(v) == IF VKind(v) = "ptr" THEN Elem(v) ELSE v

\* fmt.Sprintf(c.floatFormat, x): x printed with FloatPrecision decimals.  A
\* float is held as a count of 10^-(FloatPrecision+1), so the printed number
\* is the nearest count of 10^-FloatPrecision, ties to even
FormatFloat(f) ==
  LET q == f \div 10
      r == f % 10
  IN IF r > 5 \/ (r = 5 /\ q % 2 = 1) THEN q + 1 ELSE q

\* the Equal method of time.Time: the same instant, whatever the location
EqualMethod(a, b) == a.fl[1] = b.fl[1]

HasEqualMethod(t) == t = "Time"

(***************************************************************************)
(* func (c *cmp) respect and func (c *cmp) respectSliceIgnoreOrder         *)
(* Every operator takes the context c and returns the context after the    *)
(* code has run.  The `level` argument of the code is never read and is    *)
(* left out.                                                               *)
(***************************************************************************)
RECURSIVE respect(_, _, _)
RECURSIVE respectStructFields(_, _, _, _)
RECURSIVE respectMapKeys(_, _, _, _, _)
RECURSIVE respectArrayItems(_, _, _, _)
RECURSIVE respectSliceInOrder(_, _, _, _)
RECURSIVE respectStructItems(_, _, _, _, _)
RECURSIVE respectStringItems(_, _, _, _, _)

\* the type-mismatch branch
respectTypeMismatch_ShortNames(c, objVal, respectObjVal) ==
  pop(saveDiff(push(c, "<type>"), TypeString(objVal.t), TypeString(respectObjVal.t)))

respectTypeMismatch(c, objVal, respectObjVal) ==
  LET objType == objVal.t
      respectObjType == respectObjVal.t
      c1 == push(c, "<type>")
      c2 == IF TypeName(respectObjType) = "" \/ TypeName(respectObjType) # TypeName(objType)
              THEN saveDiff(c1, TypeString(objType), TypeString(respectObjType))
              ELSE saveDiff(c1, PkgPath(objType) \o "." \o TypeName(objType),
                            PkgPath(respectObjType) \o "." \o TypeName(respectObjType))
  IN pop(c2)

\* for i := 0; i < respectObjVal.NumField(); i++ { ... } of the Struct case
respectStructFields_StopsAtFirstDiff(c, objVal, respectObjVal, i) ==
  IF i >= NumField(respectObjVal) THEN c
  ELSE IF Fields(respectObjVal.t)[i + 1].pkgPath # ""
    THEN respectStructFields(c, objVal, respectObjVal, i + 1)
  ELSE LET fieldName == Fields(respectObjVal.t)[i + 1].name
           c1 == push(c, fieldName)
           c2 == respect(c1, FieldByName(objVal, fieldName), FieldAt(respectObjVal, i))
           c3 == pop(c2)
       IN IF c2.panicked THEN c2
          ELSE IF Len(c3.diff) >= 1 THEN c3
          ELSE respectStructFields(c3, objVal, respectObjVal, i + 1)

respectStructFields(c, objVal, respectObjVal, i) ==
  IF i >= NumField(respectObjVal) THEN c
  ELSE IF Fields(respectObjVal.t)[i + 1].pkgPath # ""
    THEN respectStructFields(c, objVal, respectObjVal, i + 1)
  ELSE LET fieldName == Fields(respectObjVal.t)[i + 1].name
           c1 == push(c, fieldName)
           c2 == respect(c1, FieldByName(objVal, fieldName), FieldAt(respectObjVal, i))
           c3 == pop(c2)
       IN IF c2.panicked THEN c2
          ELSE IF Len(c3.diff) >= MaxDiff THEN c3
          ELSE respectStructFields(c3, objVal, respectObjVal, i + 1)

\* respectObjVal.MapKeys(): the keys in the order this run enumerates them
MapKeys(v, order) ==
  LET ks == [i \in 1..Len(v.kv) |-> v.kv[i][1]]
  IN IF order = "reverse" THEN [i \in 1..Len(ks) |-> ks[Len(ks) + 1 - i]] ELSE ks

\* for _, key := range respectObjVal.MapKeys() { ... } of the Map case
respectMapKeys(c, objVal, respectObjVal, keys, k) ==
  IF k > Len(keys) THEN c
  ELSE LET key == keys[k]
           c1 == push(c, "map[" \o key \o "]")
           aVal == MapIndex(objVal, key)
           bVal == MapIndex(respectObjVal, key)
           c2 == IF IsValid(aVal) THEN respect(c1, aVal, bVal)
                 ELSE saveDiff(c1, "<does not have key>", FormatValue(bVal, 0))
           c3 == pop(c2)
       IN IF c2.panicked THEN c2
          ELSE IF Len(c3.diff) >= MaxDiff THEN c3
          ELSE respectMapKeys(c3, objVal, respectObjVal, keys, k + 1)

\* for i := 0; i < n; i++ { ... } of the Array case
respectArrayItems(c, objVal, respectObjVal, i) ==
  IF i >= VLen(respectObjVal) THEN c
  ELSE LET c1 == push(c, "array[" \o Itoa(i) \o "]")
           c2 == respect(c1, Index(objVal, i), Index(respectObjVal, i))
           c3 == pop(c2)
       IN IF c2.panicked THEN c2
          ELSE IF Len(c3.diff) >= MaxDiff THEN c3
          ELSE respectArrayItems(c3, objVal, respectObjVal, i + 1)

\* the "compared one by one" loop of the Slice case
respectSliceInOrder(c, objVal, respectObjVal, i) ==
  IF i >= VLen(respectObjVal) THEN c
  ELSE LET c1 == push(c, "[" \o Itoa(i) \o "]")
           c2 == respect(c1, Index(objVal, i), Index(respectObjVal, i))
           c3 == pop(c2)
       IN IF c2.panicked THEN c2
          ELSE IF Len(c3.diff) >= MaxDiff THEN c3
          ELSE respectSliceInOrder(c3, objVal, respectObjVal, i + 1)

\* structHash panics when v is the zero Value (FieldByName on a nil element)
structHashPanics(v) == ~IsValid(v)

structHash(v, fieldNames) ==
  Join([k \in 1..Len(fieldNames) |-> StringOf(valueType(FieldByName(v, fieldNames[k])))], "-")

\* the string/*string fields of the first item that are not zero
IdentifierFields(respectObjItemVal) ==
  LET keep(f) == /\ IsValid(respectObjItemVal.fl[f])
                 /\ ~IsZero(respectObjItemVal.fl[f])
                 /\ VKind(valueType(respectObjItemVal.fl[f])) = "string"
      idx == SelectSeq([f \in 1..Len(respectObjItemVal.fl) |-> f], keep)
  IN [k \in 1..Len(idx) |-> Fields(respectObjItemVal.t)[idx[k]].name]

\* for j := 0; j < objVal.Len(); j++ { ... }: the set of j the scan reaches
\* before it stops, and how it stops
ScanStop(objVal, fieldNames, respectHash) ==
  LET stops(j) == \/ structHashPanics(valueType(Index(objVal, j)))
                  \/ structHash(valueType(Index(objVal, j)), fieldNames) = respectHash
      hits == {j \in 0..(VLen(objVal) - 1) : stops(j)}
  IN IF hits = {} THEN -1 ELSE CHOOSE j \in hits : \A k \in hits : j <= k

\* for i := 0; i < respectObjVal.Len(); i++ { ... } of the unordered Struct case
respectStructItems(c, objVal, respectObjVal, fieldNames, i) ==
  IF i >= VLen(respectObjVal) THEN c
  ELSE LET c1 == push(c, "[" \o Itoa(i) \o "]")
           respectObjItemVal == valueType(Index(respectObjVal, i))
       IN IF structHashPanics(respectObjItemVal) THEN Panic(c1)
          ELSE LET respectHash == structHash(respectObjItemVal, fieldNames)
                   j == ScanStop(objVal, fieldNames, respectHash)
                   found == j >= 0
                   c2 == IF found
                           THEN respect(c1, Index(objVal, j), Index(respectObjVal, i))
                           ELSE pop(saveDiff(push(c1, Join(fieldNames, "-")),
                                             "<not found>", respectHash))
               IN IF found /\ structHashPanics(valueType(Index(objVal, j))) THEN Panic(c1)
                  ELSE IF c2.panicked THEN c2
                  ELSE IF Len(c2.diff) >= MaxDiff THEN c2
                  ELSE respectStructItems(pop(c2), objVal, respectObjVal, fieldNames, i + 1)

\* for i := 0; i < respectObjVal.Len(); i++ { ... } of the unordered String
\* case; dirtyObjIndex is the set of indices of objVal already matched
respectStringItems(c, objVal, respectObjVal, i, dirtyObjIndex) ==
  IF i >= VLen(respectObjVal) THEN c
  ELSE LET free == {j \in 0..(VLen(objVal) - 1) :
                      /\ j \notin dirtyObjIndex
                      /\ StringOf(Index(objVal, j)) = StringOf(Index(respectObjVal, i))}
           found == free # {}
           first == CHOOSE j \in free : \A k \in free : j <= k
       IN IF found
            THEN respectStringItems(c, objVal, respectObjVal, i + 1, dirtyObjIndex \cup {first})
            ELSE respectStringItems(
                   pop(saveDiff(push(c, "item"), "<not found>",
                                StringOf(Index(respectObjVal, i)))),
                   objVal, respectObjVal, i + 1, dirtyObjIndex)

respectSliceIgnoreOrder_PairsWithoutIdentifier(c, objVal, respectObjVal) ==
  LET itemKind == VKind(valueType(Index(respectObjVal, 0)))
  IN CASE itemKind = "struct" ->
            LET fieldNames == IdentifierFields(valueType(Index(respectObjVal, 0)))
            IN IF Len(fieldNames) = 0
                 THEN respectSliceInOrder(c, objVal, respectObjVal, 0)
                 ELSE respectStructItems(c, objVal, respectObjVal, fieldNames, 0)
       [] itemKind = "string" -> respectStringItems(c, objVal, respectObjVal, 0, {})
       [] OTHER -> c

respectSliceIgnoreOrder(c, objVal, respectObjVal) ==
  LET itemKind == VKind(valueType(Index(respectObjVal, 0)))
  IN CASE itemKind = "struct" ->
            LET fieldNames == IdentifierFields(valueType(Index(respectObjVal, 0)))
            IN IF Len(fieldNames) = 0
                 THEN save(c, "<non valid field identifier was found>")
                 ELSE respectStructItems(c, objVal, respectObjVal, fieldNames, 0)
       [] itemKind = "string" -> respectStringItems(c, objVal, respectObjVal, 0, {})
       [] OTHER -> c

\* objVal.Pointer() == respectObjVal.Pointer()
sameStorage_Never(objVal, respectObjVal) == FALSE

sameStorage(objVal, respectObjVal) == Pointer(objVal) = Pointer(respectObjVal)

\* case reflect.Struct
respectStruct(c, objVal, respectObjVal) ==
  IF HasEqualMethod(objVal.t)
    THEN IF ~EqualMethod(objVal, respectObjVal)
           THEN saveDiff(c, FormatValue(objVal, 0), FormatValue(respectObjVal, 0))
           ELSE c
    ELSE respectStructFields(c, objVal, respectObjVal, 0)

\* case reflect.Map
respectMap_SkipsAbsentKeys(c, objVal, respectObjVal) ==
  IF ~(~IsNil(respectObjVal) /\ VLen(respectObjVal) # 0) THEN c
  ELSE LET c1 == IF IsNil(objVal)
                   THEN saveDiff(c, "<nil map>", FormatValue(respectObjVal, 0))
                   ELSE c
           present(key) == IsValid(MapIndex(objVal, key))
       IN IF sameStorage(objVal, respectObjVal) THEN c1
          ELSE respectMapKeys(c1, objVal, respectObjVal,
                              SelectSeq(MapKeys(respectObjVal, c.keys), present), 1)

respectMap(c, objVal, respectObjVal) ==
  IF ~(~IsNil(respectObjVal) /\ VLen(respectObjVal) # 0) THEN c
  ELSE LET c1 == IF IsNil(objVal)
                   THEN saveDiff(c, "<nil map>", FormatValue(respectObjVal, 0))
                   ELSE c
       IN IF sameStorage(objVal, respectObjVal) THEN c1
          ELSE respectMapKeys(c1, objVal, respectObjVal, MapKeys(respectObjVal, c.keys), 1)

\* c.options&OrderMatters != 0
orderMatters_Never(c) == FALSE

orderMatters(c) == HasOption(c.options, OrderMatters)

\* c.options&LengthMatters != 0
lengthMatters_Never(c) == FALSE

lengthMatters(c) == HasOption(c.options, LengthMatters)

\* the element comparison of the Slice case
respectSliceItems(c, objVal, respectObjVal) ==
  IF orderMatters(c) \/ (VLen(respectObjVal) <= 1 /\ VLen(objVal) = 1)
    THEN respectSliceInOrder(c, objVal, respectObjVal, 0)
    ELSE respectSliceIgnoreOrder(c, objVal, respectObjVal)

\* case reflect.Slice
respectSlice_ShortNeedsLengthMatters(c, objVal, respectObjVal) ==
  IF ~(~IsNil(respectObjVal) /\ VLen(respectObjVal) # 0) THEN c
  ELSE LET c1 == IF IsNil(objVal)
                   THEN saveDiff(c, "<nil slice>", FormatValue(respectObjVal, 0))
                   ELSE c
           objLen == VLen(objVal)
           respectObjLen == VLen(respectObjVal)
       IN IF objLen = respectObjLen
            THEN IF sameStorage(objVal, respectObjVal) THEN c1
                 ELSE IF respectObjLen = 0 THEN c1
                 ELSE respectSliceItems(c1, objVal, respectObjVal)
          ELSE IF objLen < respectObjLen
            THEN IF lengthMatters(c1)
                   THEN pop(saveDiff_(push(c1, "<len>"), Itoa(objLen), Itoa(respectObjLen), "<"))
                   ELSE c1
          ELSE IF lengthMatters(c1)
            THEN respectSliceItems(
                   pop(saveDiff_(push(c1, "<len>"), Itoa(objLen), Itoa(respectObjLen), ">")),
                   objVal, respectObjVal)
          ELSE respectSliceItems(c1, objVal, respectObjVal)

respectSlice(c, objVal, respectObjVal) ==
  IF ~(~IsNil(respectObjVal) /\ VLen(respectObjVal) # 0) THEN c
  ELSE LET c1 == IF IsNil(objVal)
                   THEN saveDiff(c, "<nil slice>", FormatValue(respectObjVal, 0))
                   ELSE c
           objLen == VLen(objVal)
           respectObjLen == VLen(respectObjVal)
       IN IF objLen = respectObjLen
            THEN IF sameStorage(objVal, respectObjVal) THEN c1
                 ELSE IF respectObjLen = 0 THEN c1
                 ELSE respectSliceItems(c1, objVal, respectObjVal)
          ELSE IF objLen < respectObjLen
            THEN pop(saveDiff_(push(c1, "<len>"), Itoa(objLen), Itoa(respectObjLen), "<"))
          ELSE IF lengthMatters(c1)
            THEN respectSliceItems(
                   pop(saveDiff_(push(c1, "<len>"), Itoa(objLen), Itoa(respectObjLen), ">")),
                   objVal, respectObjVal)
          ELSE respectSliceItems(c1, objVal, respectObjVal)

\* the scalar cases of the switch
respectScalar(c, objVal, respectObjVal) ==
  CASE VKind(respectObjVal) = "float" ->
         IF FormatFloat(objVal.f) # FormatFloat(respectObjVal.f)
           THEN saveDiff(c, FormatValue(objVal, 0), FormatValue(respectObjVal, 0)) ELSE c
    [] VKind(respectObjVal) = "bool" ->
         IF objVal.b # respectObjVal.b
           THEN saveDiff(c, FormatValue(objVal, 0), FormatValue(respectObjVal, 0)) ELSE c
    [] VKind(respectObjVal) = "int" ->
         IF objVal.n # respectObjVal.n
           THEN saveDiff(c, FormatValue(objVal, 0), FormatValue(respectObjVal, 0)) ELSE c
    [] VKind(respectObjVal) = "uint" ->
         IF objVal.u # respectObjVal.u
           THEN saveDiff(c, FormatValue(objVal, 0), FormatValue(respectObjVal, 0)) ELSE c
    [] VKind(respectObjVal) = "string" ->
         IF objVal.s # respectObjVal.s
           THEN saveDiff(c, objVal.s, respectObjVal.s) ELSE c

\* c.options&ZeroValueMatters == 0 && respectObjVal.IsZero()
ignoreZero_Always(c, respectObjVal) == IsZero(respectObjVal)

ignoreZero_NilOnly(c, respectObjVal) ==
  /\ ~HasOption(c.options, ZeroValueMatters)
  /\ VKind(respectObjVal) \in {"ptr", "slice", "map"}
  /\ IsZero(respectObjVal)

ignoreZero_Never(c, respectObjVal) == FALSE

ignoreZero(c, respectObjVal) ==
  ~HasOption(c.options, ZeroValueMatters) /\ IsZero(respectObjVal)

respect(c, objVal, respectObjVal) ==
  IF ~IsValid(respectObjVal) THEN c
  ELSE IF ~IsValid(objVal) THEN saveDiff(c, "<nil pointer>", TypeString(respectObjVal.t))
  ELSE IF objVal.t # respectObjVal.t THEN respectTypeMismatch(c, objVal, respectObjVal)
  ELSE IF ignoreZero(c, respectObjVal) THEN c
  ELSE CASE VKind(respectObjVal) = "struct" -> respectStruct(c, objVal, respectObjVal)
         [] VKind(respectObjVal) = "map" -> respectMap(c, objVal, respectObjVal)
         [] VKind(respectObjVal) = "array" -> respectArrayItems(c, objVal, respectObjVal, 0)
         [] VKind(respectObjVal) = "slice" -> respectSlice(c, objVal, respectObjVal)
         [] VKind(respectObjVal) = "ptr" -> respect(c, Elem(objVal), Elem(respectObjVal))
         [] OTHER -> respectScalar(c, objVal, respectObjVal)

(***************************************************************************)
(* func Respect(obj, respectObj interface{}, respectOptions ...Options)    *)
(* A nil interface argument is the Invalid value.  The result is the       *)
(* context at the return; its diff is the list returned (nil when empty).  *)
(***************************************************************************)
Respect_NilExpectedAssertsNothing(o, r, opts, order) ==
  LET c == NewCmp(OrOptions(opts), order)
  IN IF ~IsValid(r) THEN c
     ELSE IF ~IsValid(o) THEN saveDiff(c, "<nil pointer>", FormatValue(r, 0))
     ELSE respect(c, o, r)

Respect(o, r, opts, order) ==
  LET c == NewCmp(OrOptions(opts), order)
      c1 == IF ~IsValid(o) /\ ~IsValid(r) THEN c
            ELSE IF ~IsValid(o) /\ IsValid(r) THEN saveDiff(c, "<nil pointer>", FormatValue(r, 0))
            ELSE IF IsValid(o) /\ ~IsValid(r) THEN saveDiff(c, FormatValue(o, 0), "<nil pointer>")
            ELSE c
  IN IF ~IsValid(o) /\ ~IsValid(r) THEN c
     ELSE IF Len(c1.diff) > 0 THEN c1
     ELSE respect(c1, o, r)

(***************************************************************************)
(* The gomega matcher: Respect(expected, options...) builds it, Match runs *)
(* the comparison.                                                         *)
(***************************************************************************)
OptionLists ==
  {<<>>, <<OrderMatters>>, <<LengthMatters>>, <<ZeroValueMatters>>,
   <<OrderMatters, LengthMatters>>, <<OrderMatters, ZeroValueMatters>>,
   <<LengthMatters, ZeroValueMatters>>,
   <<OrderMatters, LengthMatters, ZeroValueMatters>>}

\* the state after gomega.Respect(expected, respectOptions...)
NewMatcher(expecteds) ==
  /\ respectObj \in expecteds
  /\ respectOptions \in OptionLists
  /\ obj = Invalid
  /\ pc = "ready"
  /\ cmp = NewCmp(0, "forward")
  /\ matcherDiff = <<>>
  /\ success = FALSE

\* func (matcher *respectMatcher) Match(actual), with the call of
\* respect.Respect it makes
Match(actual, order) ==
  /\ pc = "ready"
  /\ \E c \in {Respect(actual, respectObj, respectOptions, order)} :
        /\ cmp' = c
        /\ pc' = IF c.panicked THEN "panicked" ELSE "returned"
        /\ matcherDiff' = IF c.panicked THEN matcherDiff
                          ELSE [i \in 1..Len(c.diff) |-> c.diff[i].text]
        /\ success' = IF c.panicked THEN success ELSE Len(c.diff) = 0
  /\ obj' = actual
  /\ UNCHANGED <<respectObj, respectOptions>>

(***************************************************************************)
(* Inputs.  Storage allocated for the actual value has address 1, storage  *)
(* allocated for the expected value address 2; an actual value that is the *)
(* expected value itself shares its storage.                               *)
(***************************************************************************)
SeqsUpTo(S, n) == UNION {[1..k -> S] : k \in 0..n}

StringPool == {"", "a", "b"}

ColorPool == {"Yellow", "Black"}

StringPtrs(a) == {NilPtr("*string")} \cup {Ptr("*string", Str("string", s), a) : s \in {"a", "b"}}

SlicesOf(t, elems, n, a) == {NilSlice(t)} \cup {Slice(t, e, a) : e \in SeqsUpTo(elems, n)}

StringSlices(a) ==
  SlicesOf("[]string", {Str("string", s) : s \in StringPool}, MaxLen, a)

ColorSlices(a) ==
  SlicesOf("[]Color", {Str("Color", s) : s \in ColorPool}, MaxLen, a)

StringPtrSlices(a) == SlicesOf("[]*string", StringPtrs(a), MaxLen, a)

TextSlices(a) == StringSlices(a) \cup ColorSlices(a) \cup StringPtrSlices(a)

\* the actual values a matcher is given: values of the type of the expected
\* one (any value when the expected one is a nil interface), and the expected
\* value itself
Actuals(values) ==
  IF IsValid(respectObj) THEN {v \in values : v.t = respectObj.t} \cup {respectObj}
  ELSE values \cup {respectObj}

\* --- scalars and pointers to them
Scalars ==
  {Str("string", x) : x \in StringPool} \cup {Str("Color", x) : x \in {""} \cup ColorPool}
  \cup {Int32(n) : n \in {0, 3}} \cup {Uint8(n) : n \in {0, 1}}
  \cup {Bool(b) : b \in BOOLEAN} \cup {Float64(f) : f \in {0, 4, 240, 241, 256}}

\* --- the structs of the test suite
Leg(name, longShort) == Struct("Leg", <<name, Str("string", longShort)>>)

Legs(a) == {Leg(n, l) : n \in StringPtrs(a), l \in {"", "long"}}

LegPtrs(a) ==
  {NilPtr("*Leg"), Ptr("*Leg", Leg(NilPtr("*string"), ""), a),
   Ptr("*Leg", Leg(Ptr("*string", Str("string", "a"), a), "long"), a)}

LegSlices(a) == SlicesOf("[]*Leg", LegPtrs(a), MaxItems, a)

Heads(a) ==
  {Struct("Head", <<m, e>>) :
     m \in {NilPtr("*string"), Ptr("*string", Str("string", "a"), a)},
     e \in {NilSlice("[]*string"),
            Slice("[]*string", <<Ptr("*string", Str("string", "a"), a),
                                 Ptr("*string", Str("string", "a"), a)>>, a)}}

HeadPtrs(a) == {NilPtr("*Head")} \cup {Ptr("*Head", h, a) : h \in Heads(a)}

Bodies(a) ==
  {Struct("Body", <<h, arms, legs>>) :
     h \in {NilPtr("*Head"),
            Ptr("*Head", Struct("Head", <<Ptr("*string", Str("string", "a"), a),
                                          NilSlice("[]*string")>>), a)},
     arms \in {NilSlice("[]string"),
               Slice("[]string", <<Str("string", "a"), Str("string", "b")>>, a)},
     legs \in {NilSlice("[]*Leg"),
               Slice("[]*Leg", <<Ptr("*Leg", Leg(Ptr("*string", Str("string", "a"), a), ""), a),
                                 Ptr("*Leg", Leg(Ptr("*string", Str("string", "b"), a), ""), a)>>,
                     a)}}

StringMaps(a) ==
  {NilMap("map[string]string"), Map("map[string]string", <<>>, a),
   Map("map[string]string", <<<<"1+1", Str("string", "2")>>>>, a),
   Map("map[string]string", <<<<"1+1", Str("string", "3")>>>>, a),
   Map("map[string]string", <<<<"1+1", Str("string", "2")>>, <<"2*2", Str("string", "4")>>>>, a),
   Map("map[string]string", <<<<"2*2", Str("string", "")>>>>, a)}

Persons(a) ==
  {Struct("Person", <<Str("string", name), Int32(age), desc, Str("Color", "Yellow"), body, mem>>) :
     name \in {"", "NeZha"}, age \in {0, 3},
     desc \in {NilPtr("*string"), Ptr("*string", Str("string", "a"), a)},
     body \in {Struct("Body", <<NilPtr("*Head"), NilSlice("[]string"), NilSlice("[]*Leg")>>),
               Struct("Body", <<Ptr("*Head", Struct("Head", <<NilPtr("*string"),
                                                              NilSlice("[]*string")>>), a),
                                Slice("[]string", <<Str("string", "a")>>, a),
                                Slice("[]*Leg", <<Ptr("*Leg", Leg(NilPtr("*string"), "long"), a)>>,
                                      a)>>)},
     mem \in {NilMap("map[string]string"),
              Map("map[string]string", <<<<"1+1", Str("string", "2")>>>>, a)}}

PersonPtrs(a) == {NilPtr("*Person")} \cup {Ptr("*Person", q, a) : q \in Persons(a)}

StringArrays ==
  {Array("[2]string", <<Str("string", x), Str("string", y)>>) : x, y \in StringPool}

Measures ==
  {Struct("Measure", <<Float64(f), Uint8(u), Bool(b)>>) :
     f \in {0, 4, 240}, u \in {0, 1}, b \in BOOLEAN}

Times == {Struct("Time", <<Int32(n), Str("string", l)>>) : n \in {0, 1}, l \in {"", "UTC"}}

Int32Slices(a) == SlicesOf("[]int32", {Int32(n) : n \in {0, 3}}, MaxItems, a)

\* every shape the comparison distinguishes
Values(a) ==
  Scalars \cup StringPtrs(a) \cup Legs(a) \cup LegPtrs(a) \cup LegSlices(a)
  \cup Heads(a) \cup HeadPtrs(a) \cup Bodies(a) \cup StringMaps(a)
  \cup Persons(a) \cup PersonPtrs(a) \cup StringArrays \cup Times \cup Measures \cup Int32Slices(a)
  \cup SlicesOf("[]string", {Str("string", x) : x \in {"", "a"}}, MaxItems, a)
  \cup SlicesOf("[]*string", {NilPtr("*string"), Ptr("*string", Str("string", "a"), a)},
                 MaxItems, a)

\* --- slices of one repeated item
Repeat(v, n) == [i \in 1..n |-> v]

WideStringSlices(a) ==
  {Slice("[]string", Repeat(Str("string", x), n), a) : x \in {"a", "b"}, n \in 0..MaxWide}

WideLegSlices(a) ==
  {Slice("[]*Leg", Repeat(Ptr("*Leg", Leg(Ptr("*string", Str("string", x), a), l), a), n), a) :
     x \in {"a", "b"}, l \in {"", "long"}, n \in 0..MaxWide}

WideSlices(a) == WideStringSlices(a) \cup WideLegSlices(a)

\* --- slices of structs and of pointers to structs, told apart by the
\* identifier the unordered matching derives from their string fields
ItemPool(a) ==
  {Leg(NilPtr("*string"), ""),
   Leg(Ptr("*string", Str("string", "a"), a), ""),
   Leg(Ptr("*string", Str("string", "a"), a), "long"),
   Leg(Ptr("*string", Str("string", "b"), a), "long")}

ItemSlices(a) ==
  SlicesOf("[]*Leg", {Ptr("*Leg", l, a) : l \in ItemPool(a)}, MaxItems, a)

\* persons whose legs are such a slice, followed by the field Memory
ItemPersons(a) ==
  {Struct("Person",
          <<Str("string", "NeZha"), Int32(3), NilPtr("*string"), Str("Color", "Yellow"),
            Struct("Body", <<NilPtr("*Head"), NilSlice("[]string"), legs>>), mem>>) :
     legs \in SlicesOf("[]*Leg",
                       {Ptr("*Leg", Leg(NilPtr("*string"), ""), a),
                        Ptr("*Leg", Leg(Ptr("*string", Str("string", "a"), a), ""), a)},
                       MaxItems, a),
     mem \in {NilMap("map[string]string"),
              Map("map[string]string", <<<<"1+1", Str("string", "2")>>>>, a),
              Map("map[string]string", <<<<"1+1", Str("string", "3")>>>>, a)}}

ItemValues(a) == ItemSlices(a) \cup ItemPersons(a)

\* --- maps: every map over the two keys of the test suite, and maps of up
\* to MaxWide keys with one value
SmallMaps(a) ==
  {NilMap("map[string]string")}
  \cup {Map("map[string]string",
            (IF x = "-" THEN <<>> ELSE <<<<"1+1", Str("string", x)>>>>)
              \o (IF y = "-" THEN <<>> ELSE <<<<"2*2", Str("string", y)>>>>), a) :
          x, y \in {"-", "", "2", "4"}}

WideMaps(a) ==
  {Map("map[string]string", [i \in 1..n |-> <<WideKey(i), Str("string", x)>>], a) :
     x \in {"a", "b"}, n \in 1..MaxWide}

AllMaps(a) == SmallMaps(a) \cup WideMaps(a)

\* --- values of many types, the zero value of each among them
Errors == {Struct(t, <<Str("string", m)>>) : t \in {"pkg/v1.Error", "pkg/v2.Error"}, m \in {"", "a"}}

TypedValues(a) ==
  Errors \cup Legs(a) \cup LegPtrs(a) \cup StringPtrs(a) \cup StringMaps(a)
  \cup {Str("string", x) : x \in {"", "a"}} \cup {Str("Color", x) : x \in {"", "Yellow"}}
  \cup {Int32(n) : n \in {0, 3}} \cup {Uint8(n) : n \in {0, 3}}
  \cup {NilSlice("[]string"), Slice("[]string", <<Str("string", "a")>>, a),
         NilSlice("[]Color"), Slice("[]Color", <<Str("Color", "a")>>, a),
         Array("[2]string", <<Str("string", ""), Str("string", "")>>),
         Array("[2]string", <<Str("string", "a"), Str("string", "")>>)}

\* --- structs whose fields are scalars: Measure, and Wide with its first k
\* fields at one value and the others at another
FlatMeasures ==
  {Struct("Measure", <<Float64(f), Uint8(u), Bool(b)>>) :
     f \in {0, 4, 240, 241, 256}, u \in {0, 1}, b \in BOOLEAN}

Wides ==
  {Struct("Wide", [i \in 1..MaxWide |-> Int32(IF i <= k THEN x ELSE y)]) :
     k \in 0..MaxWide, x \in {0, 1}, y \in {0, 1}}

FlatStructs == FlatMeasures \cup Wides

\* --- structs with an unexported field, and slices of them
DescriptionPool == {"", "x", "y"}

Described(name, description) ==
  Struct("test/Person",
         <<Str("string", name), Int32(0), Str("string", description), Str("Color", ""),
           Struct("Body", <<NilPtr("*Head"), NilSlice("[]string"), NilSlice("[]*Leg")>>),
           NilMap("map[string]string")>>)

DescribedPersons == {Described(n, d) : n \in {"", "NeZha"}, d \in DescriptionPool}

DescribedValues(a) ==
  DescribedPersons \cup SlicesOf("[]test/Person", DescribedPersons, MaxItems, a)

(***************************************************************************)
(* Specifications                                                          *)
(***************************************************************************)
\* values of every shape, a nil interface on either side, an actual of
\* another type
Init == NewMatcher(Values(2) \cup {Invalid})

\* the orders in which a run may enumerate the keys of the expected map; a
\* value without a map is compared the same way under every order
KeyOrders == IF respectObj.t = "map[string]string" THEN {"forward", "reverse"} ELSE {"forward"}

MatchValue ==
  \E actual \in Actuals(Values(1)) \cup {Invalid, Str("string", "a"), NilPtr("*Person")},
     order \in KeyOrders :
    Match(actual, order)

Next == MatchValue

Spec == Init /\ [][Next]_vars

\* slices of strings, of a named string type and of pointers to strings
InitSlices == NewMatcher(TextSlices(2))

MatchSlices == \E actual \in Actuals(TextSlices(1)) : Match(actual, "forward")

NextSlices == MatchSlices

SpecSlices == InitSlices /\ [][NextSlices]_vars

\* slices long enough to reach MaxDiff
InitWide == NewMatcher(WideSlices(2))

MatchWide == \E actual \in Actuals(WideSlices(1)) : Match(actual, "forward")

NextWide == MatchWide

SpecWide == InitWide /\ [][NextWide]_vars

\* slices of pointers to structs, alone and as a field of a struct
InitItems == NewMatcher(ItemValues(2))

MatchItems == \E actual \in Actuals(ItemValues(1)) : Match(actual, "forward")

NextItems == MatchItems

SpecItems == InitItems /\ [][NextItems]_vars

\* maps, the keys of the expected one enumerated in either order
InitMaps == NewMatcher(AllMaps(2))

MatchMaps ==
  \E actual \in Actuals(AllMaps(1)), order \in {"forward", "reverse"} : Match(actual, order)

NextMaps == MatchMaps

SpecMaps == InitMaps /\ [][NextMaps]_vars

\* an actual value of any type against an expected value of any type
InitTypes == NewMatcher(TypedValues(2))

MatchTypes == \E actual \in TypedValues(1) \cup {respectObj} : Match(actual, "forward")

NextTypes == MatchTypes

SpecTypes == InitTypes /\ [][NextTypes]_vars

\* structs whose exported fields are scalars
InitFlat == NewMatcher(FlatStructs)

MatchFlat == \E actual \in Actuals(FlatStructs) : Match(actual, "forward")

NextFlat == MatchFlat

SpecFlat == InitFlat /\ [][NextFlat]_vars

\* structs with an unexported field, alone and as items of a slice
InitDescribed == NewMatcher(DescribedValues(2))

MatchDescribed == \E actual \in Actuals(DescribedValues(1)) : Match(actual, "forward")

NextDescribed == MatchDescribed

SpecDescribed == InitDescribed /\ [][NextDescribed]_vars

(***************************************************************************)
(* Properties                                                              *)
(***************************************************************************)
Returned == pc = "returned"

Options == cmp.options

\* both arguments are values of one type
SameType == IsValid(obj) /\ IsValid(respectObj) /\ obj.t = respectObj.t

\* the diagnostics recorded under the path segment seg of the top-level value
DiffsAt(seg) == {i \in 1..Len(cmp.diff) : cmp.diff[i].path # <<>> /\ cmp.diff[i].path[1] = seg}

\* C1: the list Respect returns never holds more than MaxDiff entries.
C1_DiffWithinMaxDiff == Returned => Len(matcherDiff) <= MaxDiff

\* C2: when the top-level Respect call returns, the path stack c.buff is empty.
C2_PathStackEmpty == Returned => cmp.buff = <<>>

\* C3 (as claimed): Respect(v, nil) returns no diagnostics for any v,
\* Respect(nil, nil) returns none, Respect(nil, v) returns some for non-nil v.
C3_NilExpectedAssertsNothing ==
  Returned =>
    /\ (~IsValid(respectObj) => matcherDiff = <<>>)
    /\ (~IsValid(obj) /\ IsValid(respectObj) => matcherDiff # <<>>)

\* C3 (amended): Respect(nil, nil) returns no diagnostics; Respect(v, nil) for
\* non-nil v returns exactly the one diagnostic "v != <nil pointer>";
\* Respect(nil, v) for non-nil v returns exactly the one diagnostic
\* "<nil pointer> != v".
C3_TopLevelNil ==
  pc # "ready" =>
    /\ (~IsValid(obj) /\ ~IsValid(respectObj) => Returned /\ matcherDiff = <<>>)
    /\ (IsValid(obj) /\ ~IsValid(respectObj) =>
          Returned /\ matcherDiff = <<FormatValue(obj, 0) \o " != <nil pointer>">>)
    /\ (~IsValid(obj) /\ IsValid(respectObj) =>
          Returned /\ matcherDiff = <<"<nil pointer> != " \o FormatValue(respectObj, 0)>>)

C3_Witness ==
  Returned /\ IsValid(obj) /\ VKind(obj) = "struct" /\ ~IsValid(respectObj) /\ ~success

\* C4: for every non-nil value x, Respect(x, x) with no options returns no
\* diagnostics.
C4_Reflexive ==
  (pc # "ready" /\ IsValid(obj) /\ obj = respectObj /\ respectOptions = <<>>) =>
    Returned /\ matcherDiff = <<>> /\ success

C4_Witness ==
  /\ Returned /\ obj = respectObj /\ respectOptions = <<>> /\ success
  /\ obj.t = "[]*Leg" /\ VLen(obj) = 2 /\ ~IsZero(Index(obj, 0))

ScalarKinds == {"bool", "int", "uint", "float", "string"}

\* an expected value that is a nil pointer, a nil or empty slice, a nil or
\* empty map
Unset(v) == VKind(v) \in {"ptr", "slice", "map"} /\ (IsNil(v) \/ (VKind(v) # "ptr" /\ VLen(v) = 0))

\* C6 (as claimed): with ZeroValueMatters an expected scalar field that is zero
\* is asserted, so a non-zero actual value yields a diagnostic, while an expected
\* nil pointer, nil or empty slice, nil or empty map asserts nothing; a
\* pattern with the right scalar fields and those fields unset is respected.
C6_ZeroScalarsAsserted ==
  (Returned /\ HasOption(Options, ZeroValueMatters) /\ SameType) =>
    /\ Unset(respectObj) => success
    /\ LET o == valueType(obj)
           r == valueType(respectObj)
       IN (IsValid(o) /\ IsValid(r) /\ VKind(r) = "struct") =>
            \A i \in 1..Len(r.fl) :
              Fields(r.t)[i].pkgPath = "" =>
                /\ (VKind(r.fl[i]) \in ScalarKinds /\ IsZero(r.fl[i]) /\ ~IsZero(o.fl[i])) =>
                     DiffsAt(Fields(r.t)[i].name) # {}
                /\ Unset(r.fl[i]) => DiffsAt(Fields(r.t)[i].name) = {}

\* the two scalars differ as the code compares them: floats as printed with
\* FloatPrecision decimals
ScalarsDiffer(a, b) ==
  IF VKind(a) = "float" THEN FormatFloat(a.f) # FormatFloat(b.f) ELSE a # b

\* C6 (amended): with ZeroValueMatters an expected scalar field that is zero is
\* asserted: an actual value that is not zero (for a float: not zero when
\* rounded to FloatPrecision decimals) yields a diagnostic; an expected nil
\* pointer, nil or empty slice, nil or empty map still asserts nothing, so a
\* pattern with the right scalar fields and those fields unset is respected
\* by an actual whose such fields are populated.
C6_ZeroValueMatters ==
  (Returned /\ HasOption(Options, ZeroValueMatters) /\ SameType) =>
    /\ Unset(respectObj) => success
    /\ LET o == valueType(obj)
           r == valueType(respectObj)
       IN (IsValid(o) /\ IsValid(r) /\ VKind(r) = "struct") =>
            /\ \A i \in 1..Len(r.fl) :
                 Fields(r.t)[i].pkgPath = "" =>
                   /\ (VKind(r.fl[i]) \in ScalarKinds /\ IsZero(r.fl[i])
                         /\ ScalarsDiffer(o.fl[i], r.fl[i])) =>
                        DiffsAt(Fields(r.t)[i].name) # {}
                   /\ Unset(r.fl[i]) => DiffsAt(Fields(r.t)[i].name) = {}
            /\ (\A i \in 1..Len(r.fl) :
                  \/ VKind(r.fl[i]) \in ScalarKinds /\ r.fl[i] = o.fl[i]
                  \/ Unset(r.fl[i]) /\ IsNil(r.fl[i])
                  \/ VKind(r.fl[i]) = "struct" /\ IsZero(r.fl[i])) => success

C6_Witness ==
  /\ Returned /\ HasOption(Options, ZeroValueMatters)
  /\ obj.t = "Person" /\ respectObj.t = "Person"
  /\ respectObj.fl[1] = obj.fl[1] /\ respectObj.fl[2].n = 0 /\ obj.fl[2].n = 3
  /\ IsNil(respectObj.fl[3]) /\ IsZero(respectObj.fl[5]) /\ IsNil(respectObj.fl[6])
  /\ ~IsNil(obj.fl[3]) /\ ~IsZero(obj.fl[5]) /\ ~IsNil(obj.fl[6])
  /\ matcherDiff = <<"Age: 3 != 0">>

\* both arguments are slices of one type
SlicePair == SameType /\ VKind(respectObj) = "slice"

na == VLen(obj)

ne == VLen(respectObj)

\* the diagnostic of a length complaint
LenDiff(operator) ==
  [path |-> <<"<len>">>, msg |-> Itoa(na) \o " " \o operator \o " " \o Itoa(ne),
   text |-> "<len>: " \o Itoa(na) \o " " \o operator \o " " \o Itoa(ne)]

\* C7: when the actual slice is non-nil and shorter than the expected one,
\* under every combination of options the comparison records exactly one
\* diagnostic, at the length segment with message "na < ne", and compares no
\* element.
C7_ShorterActual ==
  (pc # "ready" /\ SlicePair /\ ~IsNil(obj) /\ na < ne) =>
    Returned /\ cmp.diff = <<LenDiff("<")>>

C7_Witness ==
  /\ Returned /\ SlicePair /\ ~IsNil(obj) /\ na = 1 /\ ne = 2
  /\ Options = OrderMatters + LengthMatters + ZeroValueMatters
  /\ matcherDiff = <<"<len>: 1 < 2">>

\* the diagnostics of the same comparison without LengthMatters
WithoutLengthMatters ==
  LET isOther(o) == o # LengthMatters
  IN Respect(obj, respectObj, SelectSeq(respectOptions, isOther), cmp.keys).diff

\* C8: when the actual slice is longer than a non-empty expected one, with
\* LengthMatters exactly one length diagnostic "na > ne" is recorded, first,
\* and the elements are compared after it as they are without the option;
\* without LengthMatters no length diagnostic is recorded.  Hence with
\* LengthMatters the comparison with a non-empty expected slice is empty only
\* if the lengths are equal.
C8_LongerActual ==
  (Returned /\ SlicePair /\ ne >= 1) =>
    /\ (na > ne /\ HasOption(Options, LengthMatters)) =>
         /\ cmp.diff # <<>>
         /\ cmp.diff[1] = LenDiff(">")
         /\ DiffsAt("<len>") = {1}
         /\ Len(cmp.diff) < MaxDiff => Tail(cmp.diff) = WithoutLengthMatters
    /\ (na > ne /\ ~HasOption(Options, LengthMatters)) => DiffsAt("<len>") = {}
    /\ (HasOption(Options, LengthMatters) /\ success) => na = ne

C8_Witness ==
  /\ Returned /\ SlicePair /\ na = 2 /\ ne = 1 /\ HasOption(Options, LengthMatters)
  /\ Len(cmp.diff) = 2 /\ cmp.diff[2].path # <<"<len>">>

\* actual[i] respects expected[i] under the options of the call
ItemRespected(i) ==
  Respect(Index(obj, i), Index(respectObj, i), respectOptions, cmp.keys).diff = <<>>

\* C9 (as claimed): with OrderMatters and na >= ne the result for the slice is
\* empty exactly when every expected[i] is respected by actual[i].
C9_InOrderOnly ==
  (Returned /\ SlicePair /\ HasOption(Options, OrderMatters) /\ na >= ne) =>
    (success <=> \A i \in 0..(ne - 1) : ItemRespected(i))

\* C9 (amended): with OrderMatters and na >= ne the result for the slice is
\* empty exactly when every expected[i] is respected by actual[i] and, if
\* LengthMatters is set and the expected slice is not empty, na = ne.
C9_InOrder ==
  (Returned /\ SlicePair /\ HasOption(Options, OrderMatters) /\ na >= ne) =>
    (success <=> /\ \A i \in 0..(ne - 1) : ItemRespected(i)
                 /\ (HasOption(Options, LengthMatters) /\ ne >= 1) => na = ne)

\* an actual that holds the expected items in another order
C9_Witness ==
  /\ Returned /\ SlicePair /\ Options = OrderMatters /\ na = 2 /\ ne = 2
  /\ Index(obj, 0).t = "string" /\ Index(obj, 0).s = "b" /\ Index(obj, 1).s = "a"
  /\ Index(respectObj, 0).s = "a" /\ Index(respectObj, 1).s = "b"
  /\ matcherDiff = <<"[0]: b != a", "[1]: a != b">>

\* the string of an item of a slice of strings or of pointers to strings
Text(v) == valueType(v).s

Count(v, x) == Cardinality({i \in 1..VLen(v) : Text(v.e[i]) = x})

Texts(v) == {Text(v.e[i]) : i \in 1..VLen(v)}

RECURSIVE Sum(_, _)
Sum(f, S) == IF S = {} THEN 0 ELSE LET x == CHOOSE x \in S : TRUE IN f[x] + Sum(f, S \ {x})

\* the expected occurrences the multiset of actual strings does not cover
Unmatched ==
  Sum([x \in Texts(respectObj) |->
         IF Count(respectObj, x) > Count(obj, x) THEN Count(respectObj, x) - Count(obj, x) ELSE 0],
      Texts(respectObj))

\* C10: without OrderMatters, for slices of strings, of a named string type
\* or of pointers to strings with na >= ne >= 1 that are matched without
\* regard to order (the actual slice has two items or more), the comparison
\* is empty only if the multiset of expected strings is contained in the
\* multiset of actual strings, and one "<not found>" diagnostic is recorded
\* per expected occurrence that cannot be matched.
C10_MultisetContainment ==
  (Returned /\ SlicePair /\ ~HasOption(Options, OrderMatters) /\ na >= ne /\ ne >= 1 /\ na >= 2
     /\ (\A i \in 1..na : IsValid(valueType(obj.e[i])))
     /\ (\A i \in 1..ne : IsValid(valueType(respectObj.e[i])))) =>
    /\ success => Unmatched = 0
    /\ Cardinality(DiffsAt("item")) = Unmatched

\* the permutations of 1..n
Perms(n) == {p \in [1..n -> 1..n] : \A i, j \in 1..n : p[i] = p[j] => i = j}

\* the slice v with its items in the order p, in storage of its own
Permute(v, p, a) == [v EXCEPT !.e = [i \in 1..Len(v.e) |-> v.e[p[i]]], !.addr = a]

\* the comparison of o with r under the options of the call returns no diagnostic
Respects(o, r) == Respect(o, r, respectOptions, cmp.keys).diff = <<>>

\* both arguments are slices of structs or of pointers to structs, in
\* storage of their own, compared without OrderMatters
StructSlicePair ==
  /\ Returned /\ SlicePair /\ ~IsNil(obj) /\ ~IsNil(respectObj)
  /\ Kind(ElemType(obj.t)) = "struct" \/ Kind(ElemType(ElemType(obj.t))) = "struct"
  /\ Pointer(obj) # Pointer(respectObj)
  /\ ~HasOption(Options, OrderMatters)

\* C11: without OrderMatters, for slices of structs or of pointers to
\* structs, permuting the items of the expected slice, or of the actual
\* slice, never changes whether the returned list is empty.
C11_OrderIndependent ==
  StructSlicePair =>
    /\ \A p \in Perms(ne) : Respects(obj, Permute(respectObj, p, 2)) <=> success
    /\ \A p \in Perms(na) : Respects(Permute(obj, p, 1), respectObj) <=> success

\* C12: under default options, for slices of the element kinds the text and
\* struct matching leave out (integers, booleans, floats, ...), if Respect
\* returns no diagnostics for a non-empty expected slice then every expected
\* item has an actual item that respects it.
C12_Superset ==
  (Returned /\ SlicePair /\ respectOptions = <<>> /\ ~IsNil(respectObj) /\ ne >= 1
     /\ Kind(ElemType(obj.t)) \notin {"string", "ptr"} /\ success) =>
    \A i \in 1..ne : \E j \in 1..na : Respects(obj.e[j], respectObj.e[i])

\* both arguments are maps of one type, the actual one not nil, the expected
\* one not empty
MapPair ==
  /\ Returned /\ SameType /\ VKind(respectObj) = "map"
  /\ ~IsNil(obj) /\ ~IsNil(respectObj) /\ VLen(respectObj) >= 1

\* the path segment of a key
KeySegment(key) == "map[" \o key \o "]"

\* the diagnostic d of a value, as it reads below the path segment seg
Below(seg, d) ==
  [path |-> <<seg>> \o d.path, msg |-> d.msg,
   text |-> Join(<<seg>> \o d.path, ".") \o ": " \o d.msg]

\* what the claim says the expected key yields: one "<does not have key>"
\* when the actual map lacks it, else the diagnostics of the two values
KeyDiffs(key) ==
  LET aVal == MapIndex(obj, key)
      bVal == MapIndex(respectObj, key)
  IN IF ~IsValid(aVal)
       THEN <<Below(KeySegment(key),
                    [path |-> <<>>, msg |-> "<does not have key> != " \o FormatValue(bVal, 0)])>>
       ELSE LET d == Respect(aVal, bVal, respectOptions, cmp.keys).diff
            IN [i \in 1..Len(d) |-> Below(KeySegment(key), d[i])]

\* the diagnostics recorded under the path segment seg, in their order
DiffsUnder(seg) ==
  LET under(d) == d.path # <<>> /\ d.path[1] = seg
  IN SelectSeq(cmp.diff, under)

\* the actual map with one more entry
AddEntry(o, key, x) == [o EXCEPT !.kv = Append(@, <<key, Str("string", x)>>)]

\* the keys the actual map can be given, the values they can be given
FreeKeys == {MapKeyUniverse[i] : i \in 1..Len(MapKeyUniverse)} \ {obj.kv[i][1] : i \in 1..Len(obj.kv)}

AddedValues == {"", "4"}

\* C13 (as claimed): each expected key absent from actual yields exactly one
\* "<does not have key>" diagnostic, each expected key present in actual
\* yields exactly the diagnostics of comparing the two values, keys present
\* only in actual produce none, and adding entries to actual never changes
\* the result.
C13_MapContainment ==
  MapPair =>
    /\ \A i \in 1..Len(respectObj.kv) :
         DiffsUnder(KeySegment(respectObj.kv[i][1])) = KeyDiffs(respectObj.kv[i][1])
    /\ \A i \in 1..Len(obj.kv) :
         ~IsValid(MapIndex(respectObj, obj.kv[i][1])) =>
           DiffsUnder(KeySegment(obj.kv[i][1])) = <<>>
    /\ Pointer(obj) # Pointer(respectObj) =>
         \A key \in FreeKeys, x \in AddedValues :
           Respect(AddEntry(obj, key, x), respectObj, respectOptions, cmp.keys).diff = cmp.diff

\* the diagnostics of the expected keys, taken in the order keys, until
\* MaxDiff of them are recorded
RECURSIVE KeyDiffsUntilMaxDiff(_, _, _)
KeyDiffsUntilMaxDiff(keys, k, acc) ==
  IF k > Len(keys) \/ Len(acc) >= MaxDiff THEN acc
  ELSE KeyDiffsUntilMaxDiff(keys, k + 1, acc \o KeyDiffs(keys[k]))

\* C13 (amended): the list is, for each expected key in the order the keys
\* are enumerated, one "<does not have key>" diagnostic when actual lacks the
\* key and the diagnostics of comparing the two values when it has it, cut
\* off after the key that brings the list to MaxDiff entries; keys present
\* only in actual produce no diagnostic; adding to actual an entry whose key
\* the expected map does not have never changes the result.
C13_MapContainmentUntilMaxDiff ==
  MapPair =>
    /\ cmp.diff = KeyDiffsUntilMaxDiff(MapKeys(respectObj, cmp.keys), 1, <<>>)
    /\ \A i \in 1..Len(obj.kv) :
         ~IsValid(MapIndex(respectObj, obj.kv[i][1])) =>
           DiffsUnder(KeySegment(obj.kv[i][1])) = <<>>
    /\ Pointer(obj) # Pointer(respectObj) =>
         \A key \in FreeKeys, x \in AddedValues :
           ~IsValid(MapIndex(respectObj, key)) =>
             Respect(AddEntry(obj, key, x), respectObj, respectOptions, cmp.keys).diff = cmp.diff

\* an actual map with one expected key missing and the other at another value
C13_Witness ==
  /\ MapPair /\ respectOptions = <<>> /\ cmp.keys = "forward"
  /\ respectObj.kv = <<<<"1+1", Str("string", "2")>>, <<"2*2", Str("string", "4")>>>>
  /\ obj.kv = <<<<"2*2", Str("string", "2")>>>>
  /\ matcherDiff = <<"map[1+1]: <does not have key> != 2", "map[2*2]: 2 != 4">>

\* PkgPath() + "." + Name()
Qualified(t) == PkgPath(t) \o "." \o TypeName(t)

\* C14: whenever actual and expected have different types, exactly one
\* diagnostic is recorded for the pair, at the segment "<type>", and nothing
\* below is compared, whatever the options, also when expected is the zero
\* value of its type and when all fields have the same values; when the two
\* types have the same non-empty name the diagnostic shows their names
\* qualified by the package path, and these differ; else it shows the types
\* as %v prints them.
C14_TypeMismatch ==
  (pc # "ready" /\ IsValid(obj) /\ IsValid(respectObj) /\ obj.t # respectObj.t) =>
    /\ Returned /\ Len(cmp.diff) = 1 /\ cmp.diff[1].path = <<"<type>">>
    /\ IF TypeName(respectObj.t) # "" /\ TypeName(respectObj.t) = TypeName(obj.t)
         THEN /\ cmp.diff[1].msg = Qualified(obj.t) \o " != " \o Qualified(respectObj.t)
              /\ Qualified(obj.t) # Qualified(respectObj.t)
         ELSE cmp.diff[1].msg = TypeString(obj.t) \o " != " \o TypeString(respectObj.t)

\* two types of one name with the same field values, the expected one the
\* zero value
C14_Witness ==
  /\ Returned /\ obj.t = "pkg/v1.Error" /\ respectObj.t = "pkg/v2.Error"
  /\ obj.fl = respectObj.fl /\ IsZero(respectObj) /\ respectOptions = <<>>
  /\ matcherDiff = <<"<type>: pkg/v1.Error != pkg/v2.Error">>

\* both arguments are structs of one type whose exported fields are all
\* scalars, compared field by field
FlatPair ==
  /\ Returned /\ SameType /\ VKind(respectObj) = "struct" /\ ~HasEqualMethod(obj.t)
  /\ \A i \in 1..Len(respectObj.fl) :
       Fields(respectObj.t)[i].pkgPath = "" => VKind(respectObj.fl[i]) \in ScalarKinds

\* the expected value of field i is asserted: not zero, or any value under
\* ZeroValueMatters
Asserted(i) == HasOption(Options, ZeroValueMatters) \/ ~IsZero(respectObj.fl[i])

\* the diagnostic of field i
FieldDiff(i) ==
  Below(Fields(respectObj.t)[i].name,
        [path |-> <<>>,
         msg |-> FormatValue(obj.fl[i], 0) \o " != " \o FormatValue(respectObj.fl[i], 0)])

\* one diagnostic per exported field that is asserted and differs, in the
\* order of declaration, the first MaxDiff of them
FieldDiffs(differ(_, _)) ==
  LET reported(i) == /\ Fields(respectObj.t)[i].pkgPath = ""
                     /\ Asserted(i)
                     /\ differ(obj.fl[i], respectObj.fl[i])
      idx == SelectSeq([i \in 1..Len(respectObj.fl) |-> i], reported)
      n == IF Len(idx) > MaxDiff THEN MaxDiff ELSE Len(idx)
  IN [k \in 1..n |-> FieldDiff(idx[k])]

ValuesDiffer(a, b) == a # b

\* C15 (as claimed): for two structs of one type whose exported fields are
\* all scalars, the list is one diagnostic per exported field whose expected
\* value is asserted and differs from the actual one, prefixed by the field
\* name, in declaration order, truncated to the first MaxDiff.
C15_OnePerDifferingField == FlatPair => cmp.diff = FieldDiffs(ValuesDiffer)

\* C15 (amended): the same, a float field differing when the two values
\* printed with FloatPrecision decimals differ.
C15_OnePerFieldDifferingAsCompared == FlatPair => cmp.diff = FieldDiffs(ScalarsDiffer)

\* a pair differing in more than MaxDiff fields, cut off at MaxDiff
C15_Witness ==
  /\ FlatPair /\ obj.t = "Wide" /\ respectOptions = <<>>
  /\ \A i \in 1..MaxWide : respectObj.fl[i].n = 1 /\ obj.fl[i].n = 0
  /\ Len(matcherDiff) = MaxDiff /\ MaxWide > MaxDiff
  /\ matcherDiff[1] = "F01: 0 != 1" /\ matcherDiff[MaxDiff] = "F10: 0 != 1"

\* C16: another call with the same actual, expected and options returns the
\* same list, the same entries in the same order, whatever the order in
\* which that call enumerates the keys of an expected map.
C16_Deterministic ==
  Returned =>
    \A order \in {"forward", "reverse"} :
      Respect(obj, respectObj, respectOptions, order).diff = cmp.diff

\* the struct v with its unexported field description set to d
WithDescription(v, d) == [v EXCEPT !.fl[3] = Str("string", d)]

\* the values v becomes when the unexported field of one struct in it is
\* given another value
Redescribed(v) ==
  IF VKind(v) = "struct" THEN {WithDescription(v, d) : d \in DescriptionPool}
  ELSE {[v EXCEPT !.e[i] = WithDescription(@, d)] : i \in 1..Len(v.e), d \in DescriptionPool}

\* C17: changing the value of an unexported field in actual or in expected,
\* also in a struct that is an item of a slice matched without OrderMatters,
\* never changes the returned diagnostics.
C17_UnexportedInvisible ==
  (Returned /\ SameType /\ obj.t \in {"test/Person", "[]test/Person"}
     /\ (VKind(obj) = "slice" => Pointer(obj) # Pointer(respectObj))) =>
    /\ \A o \in Redescribed(obj) :
         Respect(o, respectObj, respectOptions, cmp.keys).diff = cmp.diff
    /\ \A r \in Redescribed(respectObj) :
         Respect(obj, r, respectOptions, cmp.keys).diff = cmp.diff

\* both arguments are structs of one type, or pointers to them, compared
\* field by field
StructPair ==
  /\ Returned /\ SameType /\ IsValid(valueType(obj)) /\ IsValid(valueType(respectObj))
  /\ VKind(valueType(respectObj)) = "struct" /\ ~HasEqualMethod(valueType(respectObj).t)

\* the exported non-pointer fields the expected struct leaves at the zero
\* value while the actual struct has them set
OmittedFields ==
  LET o == valueType(obj)
      r == valueType(respectObj)
  IN {i \in 1..Len(r.fl) :
        /\ Fields(r.t)[i].pkgPath = "" /\ VKind(r.fl[i]) # "ptr"
        /\ IsZero(r.fl[i]) /\ ~IsZero(o.fl[i])}

FieldName(i) == Fields(valueType(respectObj).t)[i].name

NilSliceDiff ==
  [path |-> <<>>, msg |-> "<nil slice> != " \o FormatValue(respectObj, 0),
   text |-> "<nil slice> != " \o FormatValue(respectObj, 0)]

\* C19: when the expected slice is neither nil nor empty and the actual
\* slice of the same type is nil, exactly one diagnostic is recorded for
\* the slice, the nil-slice one, and no length or element diagnostic
\* follows it.
C19_NilActualSlice ==
  (Returned /\ SlicePair /\ IsNil(obj) /\ ~IsNil(respectObj) /\ ne >= 1) =>
    cmp.diff = <<NilSliceDiff>>

\* the slice of legs of v: v itself, or the field Legs of the Body of a Person
LegsOf(v) == IF v.t = "Person" THEN v.fl[5].fl[3] ELSE v

\* the path of that slice
LegsPath == IF obj.t = "Person" THEN <<"Body", "Legs">> ELSE <<>>

\* the two slices reach the matching without regard to order
MatchedUnordered(o, r) ==
  /\ ~IsNil(r) /\ VLen(r) >= 1 /\ ~IsNil(o) /\ VLen(o) >= VLen(r)
  /\ ~(VLen(o) = VLen(r) /\ Pointer(o) = Pointer(r))
  /\ ~HasOption(Options, OrderMatters)
  /\ ~(VLen(r) <= 1 /\ VLen(o) = 1)

\* the first item of r is a struct without a non-zero string or *string field
NoIdentifier(r) ==
  LET item == valueType(Index(r, 0))
  IN /\ IsValid(item)
     /\ \A i \in 1..Len(item.fl) :
          /\ VKind(item.fl[i]) = "string" => item.fl[i].s = ""
          /\ (VKind(item.fl[i]) = "ptr" /\ Kind(ElemType(item.fl[i].t)) = "string") =>
               IsNil(item.fl[i])

IsPrefix(p, q) == Len(p) <= Len(q) /\ SubSeq(q, 1, Len(p)) = p

\* C20: in unordered matching of a slice of pointers to structs whose first
\* expected item has no non-zero string or *string field, exactly one
\* diagnostic "<non valid field identifier was found>" is recorded at the
\* path of the slice, no diagnostic is recorded for an item of the slice,
\* and the fields after the enclosing struct are compared as they are
\* without the slice.
C20_NoIdentifier ==
  (Returned /\ SameType /\ obj.t \in {"[]*Leg", "Person"}
     /\ MatchedUnordered(LegsOf(obj), LegsOf(respectObj)) /\ NoIdentifier(LegsOf(respectObj))) =>
    /\ Cardinality({i \in 1..Len(cmp.diff) :
                      /\ cmp.diff[i].path = LegsPath
                      /\ cmp.diff[i].msg = "<non valid field identifier was found>"}) = 1
    /\ \A i \in 1..Len(cmp.diff) :
         (IsPrefix(LegsPath, cmp.diff[i].path) /\ cmp.diff[i].path # LegsPath) =>
           /\ cmp.diff[i].path = LegsPath \o <<"<len>">>
           /\ HasOption(Options, LengthMatters)
           /\ VLen(LegsOf(obj)) > VLen(LegsOf(respectObj))
    /\ obj.t = "Person" =>
         LET d == Respect(obj.fl[6], respectObj.fl[6], respectOptions, cmp.keys).diff
         IN DiffsUnder("Memory") = [i \in 1..Len(d) |-> Below("Memory", d[i])]

\* legs without an identifier in a Person whose Memory diverges too
C20_Witness ==
  /\ Returned /\ obj.t = "Person" /\ respectObj.t = "Person" /\ respectOptions = <<>>
  /\ VLen(LegsOf(obj)) = 2 /\ VLen(LegsOf(respectObj)) = 2
  /\ matcherDiff = <<"Body.Legs: <non valid field identifier was found>",
                      "Memory.map[1+1]: 3 != 2">>

\* the zero value of a type
RECURSIVE ZeroOf(_)
ZeroOf(t) ==
  CASE Kind(t) = "string" -> Str(t, "")
    [] Kind(t) = "int" -> Int32(0)
    [] Kind(t) = "ptr" -> NilPtr(t)
    [] Kind(t) = "slice" -> NilSlice(t)
    [] Kind(t) = "map" -> NilMap(t)
    [] Kind(t) = "struct" -> Struct(t, [i \in 1..Len(Fields(t)) |-> ZeroOf(Fields(t)[i].type)])

\* the struct v with one field replaced by the zero value of its type
ZeroedFields(v) ==
  {[v EXCEPT !.fl[f] = ZeroOf(Fields(v.t)[f].type)] : f \in 1..Len(v.fl)}

\* the slice of pointers to structs v with one field of one item zeroed
ZeroedItems(v) ==
  UNION {{[v EXCEPT !.e[i].p = w] : w \in ZeroedFields(v.e[i].p)} :
           i \in {j \in 1..Len(v.e) : ~IsNil(v.e[j])}}

\* the patterns obtained from v by replacing one field, of v or of an item
\* of its slice of legs, by the zero value of its type
Weakened(v) ==
  IF v.t = "Person"
    THEN ZeroedFields(v) \cup {[v EXCEPT !.fl[5].fl[3] = w] : w \in ZeroedItems(v.fl[5].fl[3])}
    ELSE ZeroedItems(v)

\* C21: under default options, if Respect(actual, expected) is empty and
\* expected' is expected with one field, at any depth, replaced by the zero
\* value of its type, then Respect(actual, expected') is empty too.
C21_WeakeningKeepsRespect ==
  (Returned /\ SameType /\ obj.t \in {"[]*Leg", "Person"} /\ respectOptions = <<>> /\ success) =>
    \A r \in Weakened(respectObj) :
      LET c == Respect(obj, r, respectOptions, cmp.keys)
      IN ~c.panicked /\ c.diff = <<>>

====
